---- MODULE Spec2Model ----
(***************************************************************************)
(* arnold: the migration sequencing engine of class Terminator             *)
(* (src/arnold/__init__.py).                                               *)
(*                                                                         *)
(* A migration name is the sequence of its characters, each a one-letter  *)
(* string ("10_c" is <<"1","0","_","c">>), so that the two orders the     *)
(* program uses are both computed as the program computes them: the       *)
(* catalog sorts by int(name.split("_")[0]), the ledger's latest record   *)
(* is the greatest name in string order (ORDER BY migration DESC, taken   *)
(* here as code-point order).                                              *)
(*                                                                         *)
(* The ledger is the table `migration` as the sequence of its rows'       *)
(* migration names in id (insertion, applied_on) order.                    *)
(***************************************************************************)
EXTENDS Integers, Sequences, FiniteSets, TLC

\* ------------------------------------------------------------------ bounds

\* The greatest count a run is started with (counts are -1..MaxCount).
MaxCount == 2

\* ----------------------------------------------------------- strings, ints

Digits == <<"0", "1", "2", "3", "4", "5", "6", "7", "8", "9">>

Lower == <<"a", "b", "c", "d", "e", "f", "g", "h", "i", "j", "k", "l", "m",
           "n", "o", "p", "q", "r", "s", "t", "u", "v", "w", "x", "y", "z">>

IsDigit(c) == \E i \in 1..Len(Digits) : Digits[i] = c

DigitVal(c) == (CHOOSE i \in 1..Len(Digits) : Digits[i] = c) - 1

\* The code point of a character (ord(c)) for the characters of names.
Ord(c) ==
    IF IsDigit(c) THEN 48 + DigitVal(c)
    ELSE IF c = "." THEN 46
    ELSE IF c = "_" THEN 95
    ELSE 96 + (CHOOSE i \in 1..Len(Lower) : Lower[i] = c)

\* a < b in string (code-point, lexicographic) order.
StrLess(a, b) ==
    \E k \in 1..(Len(b)) :
        /\ \A j \in 1..(k - 1) : j <= Len(a) /\ a[j] = b[j]
        /\ \/ k = Len(a) + 1
           \/ k <= Len(a) /\ Ord(a[k]) < Ord(b[k])

\* fname.split("_")[0]: the part before the first "_" (all of it if none).
SplitFirst(fname) ==
    IF \E i \in 1..Len(fname) : fname[i] = "_"
    THEN SubSeq(fname, 1,
                (CHOOSE i \in 1..Len(fname) :
                    /\ fname[i] = "_"
                    /\ \A j \in 1..(i - 1) : fname[j] # "_") - 1)
    ELSE fname

\* int(s) of a string of decimal digits.
RECURSIVE IntOf(_)
IntOf(s) ==
    IF Len(s) = 0 THEN 0
    ELSE 10 * IntOf(SubSeq(s, 1, Len(s) - 1)) + DigitVal(s[Len(s)])

\* The sort key of _retreive_filenames.
Ordinal(fname) == IntOf(SplitFirst(fname))

\* ----------------------------------------------------------------- lists

Range(s) == {s[i] : i \in 1..Len(s)}

Reverse(s) == [i \in 1..Len(s) |-> s[Len(s) + 1 - i]]

\* A search that answers the first position when x is not in s.
IndexOfOrFirst(s, x) ==
    IF x \in Range(s)
    THEN CHOOSE i \in 1..Len(s) : s[i] = x /\ \A j \in 1..(i - 1) : s[j] # x
    ELSE 1

\* list.index(x): the first position of x, 1-based; 0 stands for ValueError.
IndexOf(s, x) ==
    IF x \in Range(s)
    THEN CHOOSE i \in 1..Len(s) : s[i] = x /\ \A j \in 1..(i - 1) : s[j] # x
    ELSE 0

\* s[start:end] of Python for 0-based start >= 0 and any integer end.
PySlice(s, start, end) ==
    LET n  == Len(s)
        e0 == IF end < 0 THEN end + n ELSE end
        e  == IF e0 < 0 THEN 0 ELSE IF e0 > n THEN n ELSE e0
        b  == IF start > n THEN n ELSE start
    IN  IF b >= e THEN <<>> ELSE SubSeq(s, b + 1, e)

\* Insert x into the list s, sorted by Ordinal, after every element whose key
\* is not greater (sorted() is stable).
RECURSIVE InsertByOrdinal(_, _)
InsertByOrdinal(s, x) ==
    IF Len(s) = 0 THEN <<x>>
    ELSE IF Ordinal(s[Len(s)]) <= Ordinal(x) THEN Append(s, x)
    ELSE Append(InsertByOrdinal(SubSeq(s, 1, Len(s) - 1), x), s[Len(s)])

\* sorted(filenames) with the key left out: by name, in string order.
RECURSIVE SortedByString(_)
SortedByString(s) ==
    IF Len(s) = 0 THEN <<>>
    ELSE LET x    == s[Len(s)]
             rest == SortedByString(SubSeq(s, 1, Len(s) - 1))
             k    == Cardinality({i \in 1..Len(rest) : ~ StrLess(x, rest[i])})
         IN  SubSeq(rest, 1, k) \o <<x>> \o SubSeq(rest, k + 1, Len(rest))

RECURSIVE SortedByOrdinal(_)
SortedByOrdinal(s) ==
    IF Len(s) = 0 THEN <<>>
    ELSE InsertByOrdinal(SortedByOrdinal(SubSeq(s, 1, Len(s) - 1)), s[Len(s)])

\* Every order in which os.listdir may enumerate a set of files.
Listings(S) ==
    {s \in [1..Cardinality(S) -> S] : \A i, j \in 1..Cardinality(S) :
                                          i # j => s[i] # s[j]}

\* ------------------------------------------------------ names and files

\* The migration names the author may write: "2_b", "10_c", "11_d".  Their
\* ordinals are of one and of two digits, so that catalogs of equal digit
\* width (10_c, 11_d) and of mixed width (2_b with the others, where
\* "10_c" < "11_d" < "2_b" as strings) both occur.
Names == { <<"2", "_", "b">>,
           <<"1", "0", "_", "c">>,
           <<"1", "1", "_", "d">> }

Py == <<"p", "y">>

FileOf(name) == name \o <<".">> \o Py

\* Terminator.IGNORED_FILES
IGNORED_FILES == { <<"_", "_", "i", "n", "i", "t", "_", "_">> }

\* f.rsplit(".", 1): <<f>> without a ".", else the parts around the last one.
RSplitDot(f) ==
    IF \E i \in 1..Len(f) : f[i] = "."
    THEN LET k == CHOOSE i \in 1..Len(f) :
                      /\ f[i] = "."
                      /\ \A j \in (i + 1)..Len(f) : f[j] # "."
         IN  << SubSeq(f, 1, k - 1), SubSeq(f, k + 1, Len(f)) >>
    ELSE << f >>

\* _retreive_filenames with the test of the extension left out.
IsCandidateAnyExtension(f) ==
    LET splits == RSplitDot(f)
    IN  ~ (Len(splits) <= 1 \/ splits[1] \in IGNORED_FILES)

\* The test of the loop of _retreive_filenames: f is kept.
IsCandidate(f) ==
    LET splits == RSplitDot(f)
    IN  ~ (Len(splits) <= 1 \/ splits[2] # Py \/ splits[1] \in IGNORED_FILES)

RECURSIVE Candidates(_)
Candidates(listing) ==
    IF Len(listing) = 0 THEN <<>>
    ELSE LET rest == Candidates(SubSeq(listing, 1, Len(listing) - 1))
             f    == listing[Len(listing)]
         IN  IF IsCandidate(f) THEN Append(rest, RSplitDot(f)[1]) ELSE rest

\* _retreive_filenames for one enumeration of the directory.
RetrieveFilenames(listing) == SortedByOrdinal(Candidates(listing))

\* What _retreive_filenames may return for a directory: os.listdir gives the
\* entries in arbitrary order, and the stable sort keeps that order among
\* names of equal ordinal.
Catalogs(dir) == {RetrieveFilenames(listing) : listing \in Listings(dir)}

\* ---------------------------------------------------------------- ledger

\* No row (None of _get_latest_migration): no name is empty.
NoRow == <<>>

\* The existence check made against the newest row alone.
MigrationExistsLast(rows, migration) ==
    Len(rows) > 0 /\ rows[Len(rows)] = migration

\* SELECT id FROM migration WHERE migration = $1 LIMIT 1; len(rows) == 1
MigrationExists(rows, migration) == migration \in Range(rows)

\* _get_latest_migration ordering the rows by the integer before the "_".
LatestMigrationByOrdinal(rows) ==
    IF Len(rows) = 0 THEN NoRow
    ELSE CHOOSE m \in Range(rows) :
             \A o \in Range(rows) : Ordinal(m) >= Ordinal(o)

\* SELECT * FROM migration ORDER BY migration DESC LIMIT 1
LatestMigration(rows) ==
    IF Len(rows) = 0 THEN NoRow
    ELSE CHOOSE m \in Range(rows) : \A o \in Range(rows) : ~ StrLess(m, o)

\* DELETE ... WHERE migration = $1 LIMIT 1: one matching row goes (the
\* store is taken to accept the bounded delete; the oldest match is the one).
DeleteOne(rows, migration) ==
    LET k == IndexOf(rows, migration)
    IN  IF k = 0 THEN rows
        ELSE SubSeq(rows, 1, k - 1) \o SubSeq(rows, k + 1, Len(rows))

\* _update_migration_table with an INSERT that does nothing when the name
\* has a row.
UpdateMigrationTableIfAbsent(rows, direction, migration) ==
    IF direction = "up"
    THEN IF migration \in Range(rows) THEN rows ELSE Append(rows, migration)
    ELSE DeleteOne(rows, migration)

\* _update_migration_table
UpdateMigrationTable(rows, direction, migration) ==
    IF direction = "up" THEN Append(rows, migration)
    ELSE DeleteOne(rows, migration)

\* ---------------------------------------------------------------- engine

\* The boundary test one past the last index: never true of an index.
BlockedUpOffByOne(direction, index, n) == index = n /\ direction = "up"

\* if migration_index == len(filenames) - 1 and self.direction == 'up'
\* (index is 0-based, -1 when there is no latest record).
BlockedUp(direction, index, n) == index = n - 1 /\ direction = "up"

\* The empty-ledger test of the down direction left out.
BlockedDownOmitted(direction, latest) == FALSE

\* if not latest_migration and self.direction == 'down'
BlockedDown(direction, latest) == latest = NoRow /\ direction = "down"

\* start with a down run starting below the latest record, as an up run
\* starts above it.
StartOfDownBelow(direction, latest, index) ==
    IF latest = NoRow THEN 0 ELSE index + 1

\* start with an up run starting at the latest record itself.
StartOfUpAtLatest(direction, latest, index) ==
    IF latest = NoRow THEN 0 ELSE index

\* start, 0-based: 0, or from the index of the latest record.
StartOf(direction, latest, index) ==
    IF latest = NoRow THEN 0
    ELSE IF direction = "up" THEN index + 1
    ELSE index

\* end taken as the count itself, not counted from start.
EndOfAbsolute(count, start, n) == IF count = 0 THEN n ELSE count

\* end: len(filenames) for count 0, else start + count.
EndOf(count, start, n) == IF count = 0 THEN n ELSE start + count

\* The count notice with the comparison off by one.
CountNoticeOffByOne(count, window) == count > Len(window) + 1

\* if self.count > len(migrations_to_complete): the count notice is printed.
CountNotice(count, window) == count > Len(window)

\* _perform_migrations from the reversal to the count notice: what the run
\* resolves to for the sorted catalog, the request and the latest record.
\*   outcome "loop": the for loop runs over window; otherwise the value
\*   returned ("True", "False") or the error raised ("ValueError", by
\*   filenames.index).  notices: "nothing" is "Nothing to go <direction>.",
\*   "count" is "Count ... greater than available migrations".
Resolve(sorted, direction, count, latest) ==
    LET filenames == IF direction = "down" THEN Reverse(sorted) ELSE sorted
        n         == Len(filenames)
        none      == [outcome |-> "True", filenames |-> filenames,
                      window |-> <<>>, notices |-> {}]
        index     == IndexOf(filenames, latest) - 1
        start     == StartOf(direction, latest, index)
        window    == PySlice(filenames, start, EndOf(count, start, n))
    IN  IF n <= 0 THEN none
        ELSE IF latest # NoRow /\ index < 0
             THEN [none EXCEPT !.outcome = "ValueError"]
        ELSE IF latest # NoRow /\ BlockedUp(direction, index, n)
             THEN [none EXCEPT !.outcome = "False", !.notices = {"nothing"}]
        ELSE IF BlockedDown(direction, latest)
             THEN [none EXCEPT !.outcome = "False", !.notices = {"nothing"}]
        ELSE [outcome   |-> "loop",
              filenames |-> filenames,
              window    |-> window,
              notices   |-> IF CountNotice(count, window) THEN {"count"} ELSE {}]

\* The early returns with the test of the up direction left out.
SkipsDownOnly(exists, direction) == ~ exists /\ direction = "down"

\* The two early returns of _perform_single_migration.
Skips(exists, direction) ==
    \/ exists /\ direction = "up"
    \/ ~ exists /\ direction = "down"

\* _perform_single_migration with the fake flag ignored.
SingleOutcomeNoFake(rows, direction, fake, present, exposed, migration) ==
    IF Skips(MigrationExists(rows, migration), direction) THEN "skipped"
    ELSE IF ~ present THEN "missing"
    ELSE IF direction \in exposed THEN "went"
    ELSE "raise"

\* _perform_single_migration with the table updated outside the hasattr
\* test: a module without the operation has its row written all the same.
SingleOutcomeRecordsMissing(rows, direction, fake, present, exposed, migration) ==
    IF Skips(MigrationExists(rows, migration), direction) THEN "skipped"
    ELSE IF fake THEN "faked"
    ELSE IF ~ present THEN "missing"
    ELSE IF direction \in exposed THEN "went"
    ELSE "faked"

\* _perform_single_migration: what one unit of the window does.
\*   "skipped" (return False), "faked" and "went" (return True), "missing"
\*   (import_module raises ModuleNotFoundError: the file is not there) or
\*   "raise" (DirectionNotFoundException, after the import).
SingleOutcome(rows, direction, fake, present, exposed, migration) ==
    IF Skips(MigrationExists(rows, migration), direction) THEN "skipped"
    ELSE IF fake THEN "faked"
    ELSE IF ~ present THEN "missing"
    ELSE IF direction \in exposed THEN "went"
    ELSE "raise"

\* ----------------------------------------------------------------- state

VARIABLES
    files,      \* the entries of <folder>/migrations
    exposes,    \* name -> the operations ("up", "down") its module defines
    ledger,     \* the rows of table migration, in id order
    pc,         \* where the run is: "idle", or the await it is suspended at
    run,        \* the run in progress, or else the last one
    failed,     \* the names whose INSERT raised in some up run (awaited at
                \* line 89 after up() returned, or at line 74 when faked)
    tasks,      \* two `arnold up` processes running side by side
    late,       \* the names of the modules written with an ordinal below
                \* that of the latest record of the time
    shown       \* what the last `arnold status` reported

vars == <<files, exposes, ledger, pc, run, failed, tasks, late, shown>>

Counts == -1..MaxCount

InitFile == <<"_", "_", "i", "n", "i", "t", "_", "_">> \o <<".">> \o Py

\* run: the request (direction, count, fake), what it resolved to
\* (filenames, window, notices), the position i of the loop in window, what
\* it did so far (loaded: modules import_module was called on, whether it
\* found them or not, invoked: operations awaited and
\* returned, changed: names whose row it inserted or deleted, skipped), its
\* result once over, ledger0, the table as it read it first, and latest,
\* what _get_latest_migration returned to it.
\* pc: "listed" at the await of line 136 (the SELECT of the latest row),
\* "check" at the await of line 55 (the SELECT of the row of window[i]),
\* "invoke" at the await of line 88 (the operation of window[i]), "update"
\* at the await of line 74 or 89 (_update_migration_table for window[i]).
NoRun == [direction |-> "none", count |-> 0, fake |-> FALSE,
          filenames |-> <<>>, window |-> <<>>, i |-> 1,
          invoked |-> <<>>, loaded |-> <<>>, changed |-> <<>>,
          skipped |-> <<>>, notices |-> {}, result |-> "none",
          ledger0 |-> <<>>, latest |-> NoRow]

\* A process running `arnold up <count>` beside another: where it is (pc:
\* "none" not started, "listed", "check", "invoke" and "update" as for a
\* run, "done"), its request, catalog, window and position, and what it did.
NoTask == [pc |-> "none", count |-> 0, filenames |-> <<>>, window |-> <<>>,
           i |-> 1, invoked |-> <<>>, changed |-> <<>>, skipped |-> <<>>]

Tasks == {1, 2}

\* No status was asked for yet.
NoStatus == <<"-">>

\* After `arnold init` and Terminator.prepare: a migrations folder holding
\* __init__.py and an empty table.
Init ==
    /\ files = {InitFile}
    /\ exposes = [n \in Names |-> {}]
    /\ ledger = <<>>
    /\ pc = "idle"
    /\ run = NoRun
    /\ failed = {}
    /\ tasks = [t \in Tasks |-> NoTask]
    /\ late = {}
    /\ shown = NoStatus

\* The author writes a migration module defining the operations ops, at any
\* time, a run being in progress or not.
AddUnit(name, ops) ==
    /\ FileOf(name) \notin files
    /\ files' = files \cup {FileOf(name)}
    /\ exposes' = [exposes EXCEPT ![name] = ops]
    /\ UNCHANGED <<ledger, pc, run, failed, tasks, late, shown>>

\* Terminator(args).perform_migrations(direction) up to its first await:
\* the folder is listed (`sorted` is what _retreive_filenames returned),
\* the list reversed for down, and the run returns True on an empty list or
\* else awaits the SELECT of the latest row (line 136).
StartRun(direction, count, fake, sorted) ==
    LET filenames == IF direction = "down" THEN Reverse(sorted) ELSE sorted
        empty     == Len(filenames) <= 0
    IN  /\ pc = "idle"
        /\ run' = [NoRun EXCEPT !.direction = direction,
                                !.count = count,
                                !.fake = fake,
                                !.filenames = filenames,
                                !.result = IF empty THEN "True" ELSE "none",
                                !.ledger0 = ledger]
        /\ pc' = IF empty THEN "idle" ELSE "listed"
        /\ UNCHANGED <<files, exposes, ledger, failed, tasks, late, shown>>

\* The list as _retreive_filenames returned it, from the run's filenames.
SortedOf(direction, filenames) ==
    IF direction = "down" THEN Reverse(filenames) ELSE filenames

\* The SELECT of line 136 answers: _perform_migrations from there to the
\* for loop, on the catalog the run listed; it returns or raises, or awaits
\* the SELECT of line 55 for the first unit of the window.
Locate ==
    LET latest  == LatestMigration(ledger)
        r       == Resolve(SortedOf(run.direction, run.filenames),
                           run.direction, run.count, latest)
        looping == r.outcome = "loop" /\ Len(r.window) > 0
    IN  /\ pc = "listed"
        /\ run' = [run EXCEPT !.window = r.window,
                              !.notices = r.notices,
                              !.result = IF looping THEN "none"
                                         ELSE IF r.outcome = "loop" THEN "True"
                                         ELSE r.outcome,
                              !.ledger0 = ledger,
                              !.latest = latest]
        /\ pc' = IF looping THEN "check" ELSE "idle"
        /\ UNCHANGED <<files, exposes, ledger, failed, tasks, late, shown>>

\* What follows unit i of the window: the next iteration, or return True.
AfterUnit(i, window) == IF i = Len(window) THEN "idle" ELSE "check"

\* The for loop left at the first unit that is skipped.
AfterSkipStop(i, window) == "idle"

\* What follows a unit that was skipped: the same.
AfterSkip(i, window) == AfterUnit(i, window)

\* The SELECT of line 55 answers for window[i]: _perform_single_migration
\* from there to its next await or its end. The unit is skipped; or, faked,
\* the table update is awaited (line 74); or the module is imported (line
\* 85: ModuleNotFoundError when its file is gone) and the operation is
\* looked for (DirectionNotFoundException) and called (line 88): it
\* suspends, or it returns at once and the table update is awaited (89).
Check ==
    LET m  == run.window[run.i]
        o  == SingleOutcome(ledger, run.direction, run.fake,
                            FileOf(m) \in files, exposes[m], m)
        to == IF o = "skipped" THEN AfterSkip(run.i, run.window)
              ELSE IF o \in {"raise", "missing"} THEN "idle"
              ELSE "update"
    IN  /\ pc = "check"
        /\ \E suspends \in BOOLEAN :
              /\ suspends => o = "went"
              /\ run' = [run EXCEPT
                           !.i = IF o \in {"skipped", "raise", "missing"}
                                 THEN run.i + 1 ELSE @,
                           !.skipped = IF o = "skipped" THEN Append(@, m)
                                       ELSE @,
                           !.loaded = IF o \in {"went", "raise", "missing"}
                                      THEN Append(@, m) ELSE @,
                           !.invoked = IF o = "went" /\ ~ suspends
                                       THEN Append(@, m) ELSE @,
                           !.result = IF o = "raise" THEN "DirectionNotFound"
                                      ELSE IF o = "missing"
                                      THEN "ModuleNotFoundError"
                                      ELSE IF to = "idle" THEN "True"
                                      ELSE @]
              /\ pc' = IF suspends THEN "invoke" ELSE to
        /\ UNCHANGED <<files, exposes, ledger, failed, tasks, late, shown>>

\* The operation of window[i] returns (line 88) and the table update is
\* awaited (line 89).
Invoke ==
    /\ pc = "invoke"
    /\ run' = [run EXCEPT !.invoked = Append(@, run.window[run.i])]
    /\ pc' = "update"
    /\ UNCHANGED <<files, exposes, ledger, failed, tasks, late, shown>>

\* _update_migration_table(window[i]) is done (line 74 or 89); the unit is
\* over and the loop goes on to the SELECT of the next one, or ends.
Update ==
    LET m  == run.window[run.i]
        to == AfterUnit(run.i, run.window)
    IN  /\ pc = "update"
        /\ ledger' = UpdateMigrationTable(ledger, run.direction, m)
        /\ run' = [run EXCEPT !.i = run.i + 1,
                              !.changed = Append(@, m),
                              !.result = IF to = "idle" THEN "True" ELSE @]
        /\ pc' = to
        /\ UNCHANGED <<files, exposes, failed, tasks, late, shown>>

\* arnold up <count> [--fake], arnold down <count>: a run starts on what
\* _retreive_filenames returns for the folder.
Perform ==
    /\ pc = "idle"
    /\ \E sorted \in Catalogs(files), direction \in {"up", "down"},
          count \in Counts, fake \in BOOLEAN :
           StartRun(direction, count, fake, sorted)

\* The author adds a module, a run starts, or the run in progress goes on
\* from the await it is suspended at.
Next ==
    \/ \E name \in Names, ops \in SUBSET {"up", "down"} : AddUnit(name, ops)
    \/ Perform
    \/ Locate
    \/ Check
    \/ Invoke
    \/ Update

Spec == Init /\ [][Next]_vars

\* ------------------------------------------------- vocabulary of the claims

\* A run was started and is over.
Over == pc = "idle" /\ run.direction # "none"

\* The catalog of the run in ascending order (filenames is reversed for down).
Ascending == IF run.direction = "down" THEN Reverse(run.filenames)
             ELSE run.filenames

\* Every unit of the run's catalog defines the operations ops.
AllExpose(ops) == \A m \in Range(run.filenames) : ops \subseteq exposes[m]

\* An up or down run has read the latest record (it is past line 136), or
\* has returned on an empty catalog.
Located == run.direction \in {"up", "down"} /\ pc # "listed"

\* The unit of the window whose operation has returned and whose table
\* update is awaited, if the run is there.
Returned == IF pc = "update" /\ ~ run.fake THEN << run.window[run.i] >>
            ELSE <<>>

\* The units of the window the loop is through with.
Processed == SubSeq(run.window, 1, run.i - 1)

\* The units of the window dealt with that did not raise.
Dealt == IF run.result \in {"DirectionNotFound", "ModuleNotFoundError"}
         THEN SubSeq(Processed, 1, Len(Processed) - 1)
         ELSE Processed

\* The number of rows of name m in a table.
Rows(rows, m) == Cardinality({k \in 1..Len(rows) : rows[k] = m})

\* The elements of s that are (keep = TRUE) or are not in the set S, in order.
Within(s, S, keep) ==
    LET T(x) == (x \in S) = keep IN SelectSeq(s, T)

\* The ordinals of s increase strictly, or decrease strictly.
StrictlyAscending(s) ==
    \A a, b \in 1..Len(s) : a < b => Ordinal(s[a]) < Ordinal(s[b])

StrictlyDescending(s) ==
    \A a, b \in 1..Len(s) : a < b => Ordinal(s[a]) > Ordinal(s[b])

\* String order and ordinal order agree on the catalog of the run.
OrdersAgree ==
    \A a, b \in 1..Len(Ascending) :
        a < b => /\ Ordinal(Ascending[a]) < Ordinal(Ascending[b])
                 /\ StrLess(Ascending[a], Ascending[b])

\* The units of an up run's catalog after the latest-applied unit, as the
\* run started (all of them for an empty table).
Remaining ==
    LET latest == LatestMigration(run.ledger0)
    IN  IF latest = NoRow THEN run.filenames
        ELSE SubSeq(run.filenames, IndexOf(run.filenames, latest) + 1,
                    Len(run.filenames))

\* ------------------------------------------------------------------ claims

\* C1 (as claimed): a down run with count 0 that starts right after an up run
\* with count 0 has applied every unit of the catalog from an empty table
\* (the table then holds the catalog, one row per unit, in ascending order),
\* all units defining up and down, deletes the rows of the units in strictly
\* descending ordinal order, all of them, and ends with an empty table.
C1_DownAfterFullUp ==
    ( /\ Over
      /\ run.direction = "down" /\ run.count = 0
      /\ run.ledger0 = Ascending
      /\ AllExpose({"up", "down"}) )
    => /\ run.result = "True"
       /\ run.changed = run.filenames
       /\ StrictlyDescending(run.changed)
       /\ ledger = <<>>

\* C2: a real up run with count 0 on an empty table, every unit of the
\* catalog defining up, takes the whole catalog as its window, in strictly
\* ascending ordinal order; at each moment the rows of the table are the
\* units it is through with, in that order, and the operations that have
\* returned are those of these units and of the unit whose row is being
\* inserted; it ends
\* returning True with one row per unit of the catalog.
C2_FullUp ==
    ( /\ Located
      /\ run.direction = "up" /\ run.count = 0 /\ ~ run.fake
      /\ run.ledger0 = <<>>
      /\ AllExpose({"up"}) )
    => /\ run.window = run.filenames
       /\ StrictlyAscending(run.window)
       /\ run.invoked = Processed \o Returned
       /\ ledger = Processed
       /\ Over => /\ run.result = "True"
                  /\ ledger = run.filenames
                  /\ \A m \in Range(run.filenames) : Rows(ledger, m) = 1

\* C2's case: such a run is over on the catalog of all three names, whose
\* ordinals have one and two digits.
C2_Witness ==
    /\ Over
    /\ run.direction = "up" /\ run.count = 0 /\ ~ run.fake
    /\ run.ledger0 = <<>>
    /\ AllExpose({"up"})
    /\ Range(run.filenames) = Names
    /\ Len(run.invoked) = Cardinality(Names)

\* C3: an up run, of any count, that starts when nothing remains (every unit
\* of the catalog after the latest-applied one has a row, as an up run that
\* ran to the end of the catalog leaves it) imports no module, invokes no
\* operation and leaves the table as it found it; so does, in particular,
\* the second of two equal up runs.
C3_UpIdempotent ==
    ( /\ Located
      /\ run.direction = "up"
      /\ \A m \in Range(Remaining) : MigrationExists(run.ledger0, m) )
    => /\ run.invoked = <<>>
       /\ run.loaded = <<>>
       /\ run.changed = <<>>
       /\ ledger = run.ledger0
       /\ run.skipped = Processed
       /\ Over => run.result \in {"True", "False"}

\* C3's case: an up run is over that found every unit of its window applied
\* and skipped them all.
C3_Witness ==
    /\ Over
    /\ run.direction = "up"
    /\ \A m \in Range(Remaining) : MigrationExists(run.ledger0, m)
    /\ Len(run.window) > 0
    /\ run.skipped = run.window
    /\ run.result = "True"

\* C4: an up run with the fake flag imports no module and invokes no
\* operation, and inserts one row for each unit of its window that had none
\* (never raising); a real up run skips, without importing or invoking it,
\* every unit of its window that has a row.
C4_FakeApply ==
    /\ ( Located /\ run.direction = "up" /\ run.fake )
       => /\ run.loaded = <<>> /\ run.invoked = <<>>
          /\ run.changed = Within(Processed, Range(run.ledger0), FALSE)
          /\ ledger = run.ledger0 \o run.changed
          /\ run.result # "DirectionNotFound"
          /\ Over /\ run.result = "True"
                => \A m \in Range(run.window) : MigrationExists(ledger, m)
    /\ ( Located /\ run.direction = "up" /\ ~ run.fake )
       => \A j \in 1..Len(Processed) :
             MigrationExists(run.ledger0, Processed[j])
             => /\ Processed[j] \in Range(run.skipped)
                /\ Processed[j] \notin Range(run.loaded)
                /\ Processed[j] \notin Range(run.invoked)
                /\ Rows(ledger, Processed[j]) = Rows(run.ledger0, Processed[j])

\* C4's case: a real up run is over that skipped a unit whose module does not
\* define up: its row can only have been inserted by a fake up run.
C4_Witness ==
    /\ Over
    /\ run.direction = "up" /\ ~ run.fake
    /\ \E m \in Range(run.skipped) : "up" \notin exposes[m]

\* C5 (as claimed, for catalogs that are not empty and whose units all define
\* up): an up run whose count is greater than the number of units remaining
\* after the latest-applied unit applies exactly those units, prints the
\* count notice and ends without an error.
C5_ClampAsClaimed ==
    ( /\ Over
      /\ run.direction = "up"
      /\ Len(run.filenames) > 0
      /\ AllExpose({"up"})
      /\ run.count > Len(Remaining) )
    => /\ run.changed = Remaining
       /\ "count" \in run.notices
       /\ run.result \in {"True", "False"}

\* C5 (amended): an up run whose count is greater than the number r of units
\* remaining after the latest-applied unit, r >= 1, takes exactly those units
\* as its window and prints the count notice; it inserts a row, in order, for
\* each of them that has none and skips the others; it returns True, unless
\* it is a real run that comes to a unit without a row whose module does not
\* define up, where it raises DirectionNotFound.
C5_Clamp ==
    ( /\ Located
      /\ run.direction = "up"
      /\ run.count > Len(Remaining)
      /\ Len(Remaining) >= 1 )
    => /\ run.window = Remaining
       /\ run.notices = {"count"}
       /\ run.changed = Within(Dealt, Range(run.ledger0), FALSE)
       /\ run.skipped = Within(Dealt, Range(run.ledger0), TRUE)
       /\ ledger = run.ledger0 \o run.changed
       /\ Over => \/ /\ run.result = "True"
                     /\ run.changed = Within(Remaining, Range(run.ledger0), FALSE)
                  \/ /\ run.result = "DirectionNotFound"
                     /\ ~ run.fake
                     /\ "up" \notin exposes[Processed[Len(Processed)]]
                     /\ ~ MigrationExists(run.ledger0, Processed[Len(Processed)])

\* C5's case: an up run with a count of 2 is over that had one unit remaining
\* after an applied one, and applied it.
C5_Witness ==
    /\ Over
    /\ run.direction = "up"
    /\ run.ledger0 # <<>>
    /\ run.count = 2
    /\ Len(Remaining) = 1
    /\ run.changed = Remaining
    /\ run.result = "True"

\* C6 (as claimed, for catalogs whose units all define up): when the table
\* holds exactly the first m units of the catalog and at least k >= 1 remain,
\* an up run with count k applies the units m+1..m+k, in order, and no other.
C6_WindowedUp ==
    \A m \in 0..Len(run.filenames) :
        ( /\ Over
          /\ run.direction = "up" /\ run.count >= 1
          /\ AllExpose({"up"})
          /\ Len(run.ledger0) = m
          /\ Range(run.ledger0) = Range(SubSeq(run.filenames, 1, m))
          /\ m + run.count <= Len(run.filenames) )
        => run.changed = SubSeq(run.filenames, m + 1, m + run.count)

\* C7: no migration name has more than one row.
C7_OneRowPerName == \A m \in Names : Rows(ledger, m) <= 1

\* C7's case: a down run is over that deleted a row and left two, in a table
\* where up runs had inserted three.
C7_Witness ==
    /\ Over
    /\ run.direction = "down"
    /\ Len(run.changed) = 1
    /\ Len(ledger) = 2

\* C8 (as claimed, for catalogs on which string order and ordinal order
\* agree): a real run that has come to a unit whose module does not define
\* the requested operation has raised DirectionNotFound there.
C8_AbortAsClaimed ==
    ( /\ run.direction \in {"up", "down"}
      /\ ~ run.fake
      /\ OrdersAgree )
    => \A j \in 1..Len(Processed) :
          run.direction \notin exposes[Processed[j]]
          => /\ run.result = "DirectionNotFound"
             /\ j = Len(Processed)

\* C8 (amended): a real run that has come to a unit that is not skipped (up:
\* it has no row; down: it has one) and whose module does not define the
\* requested operation has raised DirectionNotFound there and stopped.  After
\* DirectionNotFound the table is the one the run started with, changed by
\* the units dealt with before the failing one and not skipped, each of which
\* had its operation invoked; the failing unit and the units after it in the
\* window had no operation invoked and have the rows they had.
C8_PartialProgress ==
    ( /\ Located
      /\ ~ run.fake )
    => /\ \A j \in 1..Len(Processed) :
             ( /\ run.direction \notin exposes[Processed[j]]
               /\ Processed[j] \notin Range(run.skipped) )
             => /\ run.result = "DirectionNotFound"
                /\ pc = "idle"
                /\ j = Len(Processed)
       /\ run.result = "DirectionNotFound"
          => LET f      == Len(Processed)
                 before == SubSeq(run.window, 1, f - 1)
             IN  /\ pc = "idle"
                 /\ run.direction \notin exposes[run.window[f]]
                 /\ run.changed = Within(before, Range(run.skipped), FALSE)
                 /\ run.invoked = run.changed
                 /\ ledger = IF run.direction = "up"
                             THEN run.ledger0 \o run.changed
                             ELSE Within(run.ledger0, Range(run.changed), FALSE)
                 /\ \A j \in f..Len(run.window) :
                       /\ run.window[j] \notin Range(run.invoked)
                       /\ Rows(ledger, run.window[j])
                            = Rows(run.ledger0, run.window[j])

\* C8's case: a real run raised DirectionNotFound at the second unit of a
\* window of three, after it applied the first.
C8_Witness ==
    /\ run.result = "DirectionNotFound"
    /\ Len(run.window) = 3
    /\ Len(Processed) = 2
    /\ Len(run.changed) = 1

\* C9: an up run, of any count, fake or real, that starts when the latest
\* record names the last unit of the catalog prints "Nothing to go up" and
\* returns False as soon as it has read that record: no module imported, no
\* operation invoked, no row inserted or deleted.
C9_BoundaryUp ==
    ( /\ Located
      /\ run.direction = "up"
      /\ Len(run.filenames) > 0
      /\ LatestMigration(run.ledger0) = run.filenames[Len(run.filenames)] )
    => /\ Over
       /\ run.notices = {"nothing"}
       /\ run.result = "False"
       /\ run.window = <<>>
       /\ run.loaded = <<>> /\ run.invoked = <<>> /\ run.changed = <<>>
       /\ ledger = run.ledger0

\* C9's case: a fake up run with a count of 2 found the latest record at the
\* end of a catalog of three.
C9_Witness ==
    /\ Located
    /\ run.direction = "up" /\ run.fake /\ run.count = 2
    /\ Len(run.filenames) = 3
    /\ LatestMigration(run.ledger0) = run.filenames[3]
    /\ run.result = "False"

\* C10 (as claimed): a down run on an empty table prints "Nothing to go
\* down", invokes no operation and changes no row.
C10_BoundaryDownAsClaimed ==
    ( /\ Over
      /\ run.direction = "down"
      /\ run.ledger0 = <<>> )
    => /\ "nothing" \in run.notices
       /\ run.invoked = <<>> /\ run.changed = <<>>
       /\ ledger = run.ledger0

\* C10 (amended): a down run, of any count, fake or real, on an empty table
\* and a catalog that is not empty prints "Nothing to go down" and returns
\* False at once: no operation invoked, no row changed.  On an empty catalog
\* it returns True and prints nothing, with no row changed either.
C10_BoundaryDown ==
    ( /\ Located
      /\ run.direction = "down"
      /\ run.ledger0 = <<>> )
    => /\ Over
       /\ run.window = <<>>
       /\ run.loaded = <<>> /\ run.invoked = <<>> /\ run.changed = <<>>
       /\ ledger = <<>>
       /\ IF Len(run.filenames) > 0
          THEN run.notices = {"nothing"} /\ run.result = "False"
          ELSE run.notices = {} /\ run.result = "True"

\* C10's case: a real down run with a count of 1 found the table empty and a
\* catalog of two units.
C10_Witness ==
    /\ Located
    /\ run.direction = "down" /\ ~ run.fake /\ run.count = 1
    /\ run.ledger0 = <<>>
    /\ Len(run.filenames) = 2
    /\ run.result = "False"

\* --------------------------------------------------- the catalog by itself

\* The base names of the modules a folder may hold here: "9_x", "10_y" and
\* "10_a" (two of one ordinal).
Bases == { <<"9", "_", "x">>,
           <<"1", "0", "_", "y">>,
           <<"1", "0", "_", "a">> }

\* What else it may hold: __init__.py, a file without an extension and one
\* with another extension.
Strays == { InitFile,
            <<"r", "e", "a", "d", "m", "e">>,
            <<"1", "0", "_", "y", ".", "t", "x", "t">> }

Entries == {FileOf(b) : b \in Bases} \cup Strays

\* A migrations folder holding any of the entries.
InitCatalog ==
    /\ files \in SUBSET Entries
    /\ exposes = [n \in Names |-> {}]
    /\ ledger = <<>>
    /\ pc = "idle"
    /\ run = NoRun
    /\ failed = {}
    /\ tasks = [t \in Tasks |-> NoTask]
    /\ late = {}
    /\ shown = NoStatus

\* _retreive_filenames() on the folder as os.listdir enumerates it.
List(listing) ==
    /\ pc = "idle"
    /\ run' = [NoRun EXCEPT !.direction = "list",
                            !.filenames = RetrieveFilenames(listing)]
    /\ UNCHANGED <<files, exposes, ledger, pc, failed, tasks, late, shown>>

NextCatalog == \E listing \in Listings(files) : List(listing)

SpecCatalog == InitCatalog /\ [][NextCatalog]_vars

\* C11: the catalog is exactly the base names of the entries <base>.py of the
\* folder whose base is not __init__, each once, in an order in which the
\* ordinals never decrease (9_x before 10_y); no other entry appears.
C11_CatalogOrdering ==
    run.direction = "list"
    => LET expected == {b \in Bases : FileOf(b) \in files}
       IN  /\ Range(run.filenames) = expected
           /\ Len(run.filenames) = Cardinality(expected)
           /\ \A a, b \in 1..Len(run.filenames) :
                 a < b => Ordinal(run.filenames[a]) <= Ordinal(run.filenames[b])

\* C11's case: the folder holds every entry, and the catalog is 9_x and then
\* the two modules of ordinal 10.
C11_Witness ==
    /\ run.direction = "list"
    /\ files = Entries
    /\ Len(run.filenames) = 3
    /\ run.filenames[1] = <<"9", "_", "x">>

\* C12 (as claimed): two units of one ordinal are in string order of their
\* names in the catalog, which is the same for every order in which the
\* folder is enumerated.
C12_TieBreak ==
    run.direction = "list"
    => /\ \A a, b \in 1..Len(run.filenames) :
             ( a < b /\ Ordinal(run.filenames[a]) = Ordinal(run.filenames[b]) )
             => StrLess(run.filenames[a], run.filenames[b])
       /\ \A listing \in Listings(files) :
             RetrieveFilenames(listing) = run.filenames

\* ------------------------------------------------------------------ status

\* arnold status, in a process of its own, a run being in progress or not:
\* get_latest_migration() and a line printed from it.
Status ==
    /\ shown' = LatestMigration(ledger)
    /\ UNCHANGED <<files, exposes, ledger, pc, run, failed, tasks, late>>

\* The author writes a module defining up and down.
AddBoth(name) == AddUnit(name, {"up", "down"})

\* arnold up <count>, arnold down <count>, not faked.
PerformReal ==
    /\ pc = "idle"
    /\ \E sorted \in Catalogs(files), direction \in {"up", "down"},
          count \in Counts :
           StartRun(direction, count, FALSE, sorted)

NextStatus ==
    \/ \E name \in Names : AddBoth(name)
    \/ PerformReal
    \/ Locate
    \/ Check
    \/ Invoke
    \/ Update
    \/ Status

SpecStatus == Init /\ [][NextStatus]_vars

\* C13: every `arnold status`, whatever a run is doing at the time, leaves
\* the table as it is and reports no record when the table is empty and
\* otherwise a row of the table whose name no other row's name exceeds in
\* string order.
C13_LatestByString ==
    [][ Status
        => /\ ledger' = ledger
           /\ IF Len(ledger) = 0 THEN shown' = NoRow
              ELSE /\ shown' \in Range(ledger)
                   /\ \A o \in Range(ledger) :
                         o = shown' \/ StrLess(o, shown') ]_vars

\* C13's case: the table holds 2_b and 11_d, and status has reported 2_b,
\* the greater string, though 11_d has the greater ordinal.
C13_Witness ==
    /\ Range(ledger) = { <<"2", "_", "b">>, <<"1", "1", "_", "d">> }
    /\ shown = <<"2", "_", "b">>

\* ---------------------------------------------------------- the down window

\* The units _perform_single_migration was called on and whose SELECT of
\* line 55 has answered: those the loop is through with, and the one whose
\* operation or table update is awaited.
Visited ==
    Range(SubSeq(run.window, 1, run.i - 1))
        \cup IF pc \in {"invoke", "update"} THEN {run.window[run.i]} ELSE {}

\* The units a run skipped, imported, invoked the operation of, or changed
\* the row of.
Touched ==
    Range(run.skipped) \cup Range(run.loaded) \cup Range(run.invoked)
        \cup Range(run.changed)

\* C14: a down run with count k >= 1 whose latest record is a unit of the
\* catalog has a window of at least one and at most k units, which are the
\* latest unit and the units that follow it in the reversed (descending)
\* catalog, in that order; it visits units of the window only, so none of
\* the units above the latest one.
C14_DownWindow ==
    ( /\ run.direction = "down"
      /\ run.count >= 1
      /\ run.latest # NoRow
      /\ run.latest \in Range(run.filenames) )
    => LET at == IndexOf(run.filenames, run.latest)
       IN  /\ Len(run.window) >= 1
           /\ Len(run.window) <= run.count
           /\ run.window[1] = run.latest
           /\ \A j \in 1..Len(run.window) :
                 run.window[j] = run.filenames[at + j - 1]
           /\ \A a, b \in 1..Len(run.filenames) :
                 a < b => Ordinal(run.filenames[a]) > Ordinal(run.filenames[b])
           /\ Touched \subseteq Visited
           /\ Visited \subseteq Range(run.window)
           /\ \A a \in 1..(at - 1) : run.filenames[a] \notin Visited

\* C14's case: a finished down run of count 2 over three units whose latest
\* record is the middle one: it visited that unit and the one below.
C14_Witness ==
    /\ run.direction = "down"
    /\ run.count = 2
    /\ run.result = "True"
    /\ Len(run.filenames) = 3
    /\ run.latest = run.filenames[2]
    /\ Len(run.window) = 2
    /\ Visited = Range(run.window)

\* ------------------------------------------------------------------- skips

\* C15: in an up or down run, a unit is skipped exactly for having a row (up)
\* or having none (down) as the run started; a skipped unit is neither
\* imported nor invoked and its rows are as they were; the loop goes on after
\* it: the units dealt with are a prefix of the window, each skipped or
\* changed, and a run that is over without an error has dealt with the whole
\* window; with a count k >= 1 the skipped and the changed units together are
\* at most k.
C15_SkipContinues ==
    run.direction \in {"up", "down"}
    => /\ \A m \in Range(run.skipped) :
             /\ (run.direction = "up") = (m \in Range(run.ledger0))
             /\ m \notin Range(run.loaded) \cup Range(run.invoked)
                             \cup Range(run.changed)
             /\ Rows(ledger, m) = Rows(run.ledger0, m)
       /\ \A j \in 1..Len(Dealt) :
             Dealt[j] \in Range(run.skipped) \cup Range(run.changed)
       /\ Within(Dealt, Range(run.skipped), TRUE) = run.skipped
       /\ Within(Dealt, Range(run.skipped), FALSE) = run.changed
       /\ (pc = "idle" /\ run.result = "True") => Processed = run.window
       /\ run.count >= 1 => Len(run.skipped) + Len(run.changed) <= run.count

\* C15's case: a finished up run of count 2 that skipped the first unit of
\* its window and then invoked the second and inserted its row.
C15_Witness ==
    /\ Over
    /\ run.direction = "up" /\ run.count = 2
    /\ run.result = "True"
    /\ Len(run.window) = 2
    /\ run.skipped = << run.window[1] >>
    /\ run.invoked = << run.window[2] >>
    /\ run.window[2] \in Range(ledger)

\* ------------------------------------------------- a failing table update

\* The operation and the INSERT as one step: the failure leaves the row.
UpdateFailsAtomic ==
    LET m == run.window[run.i]
    IN  /\ pc = "update"
        /\ run.direction = "up"
        /\ failed' = failed \cup {m}
        /\ ledger' = UpdateMigrationTable(ledger, run.direction, m)
        /\ run' = [run EXCEPT !.i = run.i + 1, !.result = "InsertError"]
        /\ pc' = "idle"
        /\ UNCHANGED <<files, exposes, tasks, late, shown>>

\* The INSERT awaited by an up run raises, at line 89 after the module's
\* up() returned or, faked, at line 74 with no operation called: the error
\* leaves _perform_single_migration and the run.
UpdateFails ==
    LET m == run.window[run.i]
    IN  /\ pc = "update"
        /\ run.direction = "up"
        /\ failed' = failed \cup {m}
        /\ run' = [run EXCEPT !.i = run.i + 1, !.result = "InsertError"]
        /\ pc' = "idle"
        /\ UNCHANGED <<files, exposes, ledger, tasks, late, shown>>

\* arnold up <count> [--fake]
PerformUp ==
    /\ pc = "idle"
    /\ \E sorted \in Catalogs(files), count \in Counts, fake \in BOOLEAN :
           StartRun("up", count, fake, sorted)

NextFail ==
    \/ \E name \in Names : AddBoth(name)
    \/ PerformUp
    \/ Locate
    \/ Check
    \/ Invoke
    \/ Update
    \/ UpdateFails

SpecFail == Init /\ [][NextFail]_vars

\* C16: an up run that ends on a failed INSERT is over with no row for the
\* unit, the table being as the run found it plus the rows the run inserted
\* before; if the run is real the unit's up operation has returned (the unit
\* is the last one invoked), if it is faked no operation was invoked; and an
\* up run that is not faked and reaches a unit which has no row, a unit whose
\* operation returned before a failed INSERT included, does not skip it but
\* invokes its up operation.
C16_NonAtomicApply ==
    /\ run.result = "InsertError"
       => LET m == run.window[run.i - 1]
          IN  /\ pc = "idle"
              /\ m \notin Range(run.changed)
              /\ Rows(ledger, m) = 0
              /\ ledger = run.ledger0 \o run.changed
              /\ m \in failed
              /\ IF run.fake THEN run.invoked = <<>>
                 ELSE /\ Len(run.invoked) > 0
                      /\ run.invoked[Len(run.invoked)] = m
    /\ \A m \in failed :
          ( /\ run.direction = "up" /\ ~ run.fake
            /\ m \in Range(Processed)
            /\ m \notin Range(run.ledger0) )
          => /\ m \in Range(run.invoked)
             /\ m \notin Range(run.skipped)

\* C16's case: a real up run is over on a failed INSERT, the up operation of
\* its last unit having returned and the unit having no row; and before that
\* unit the same run invoked the operation and inserted the row of another
\* unit, found without a row because its INSERT had raised in an earlier run.
C16_Witness ==
    /\ Over
    /\ run.direction = "up" /\ ~ run.fake
    /\ run.result = "InsertError"
    /\ LET m == run.window[run.i - 1]
       IN  /\ run.invoked[Len(run.invoked)] = m
           /\ Rows(ledger, m) = 0
    /\ \E e \in failed :
          /\ e \notin Range(run.ledger0)
          /\ e \in Range(run.invoked)
          /\ e \in Range(run.changed)
          /\ Rows(ledger, e) = 1

\* ------------------------------------------------------ two up runs at once

\* Process t runs `arnold up <count>`: _perform_migrations up to the await
\* of line 136, or its return on an empty catalog.
TaskStart(t, count, sorted) ==
    /\ tasks[t].pc = "none"
    /\ tasks' = [tasks EXCEPT ![t] =
                    [NoTask EXCEPT !.count = count,
                                   !.filenames = sorted,
                                   !.pc = IF Len(sorted) <= 0 THEN "done"
                                          ELSE "listed"]]
    /\ UNCHANGED <<files, exposes, ledger, pc, run, failed, late, shown>>

\* Lines 136-173 in process t, from the answer of the SELECT of the latest
\* row.
TaskLocate(t) ==
    LET task    == tasks[t]
        r       == Resolve(task.filenames, "up", task.count,
                           LatestMigration(ledger))
        looping == r.outcome = "loop" /\ Len(r.window) > 0
    IN  /\ task.pc = "listed"
        /\ tasks' = [tasks EXCEPT ![t] =
                        [task EXCEPT !.window = r.window,
                                     !.pc = IF looping THEN "check"
                                            ELSE "done"]]
        /\ UNCHANGED <<files, exposes, ledger, pc, run, failed, late, shown>>

\* Where process t goes after unit i of its window.
TaskAfter(task) ==
    IF AfterUnit(task.i, task.window) = "idle" THEN "done" ELSE "check"

\* Lines 55-88 in process t, from the answer of the SELECT of the row: the
\* skip, or the import, the test of the operation and its call.
TaskCheck(t) ==
    LET task == tasks[t]
        m    == task.window[task.i]
        o    == SingleOutcome(ledger, "up", FALSE, FileOf(m) \in files,
                              exposes[m], m)
    IN  /\ task.pc = "check"
        /\ \E suspends \in BOOLEAN :
              /\ suspends => o = "went"
              /\ tasks' = [tasks EXCEPT ![t] =
                    IF o = "skipped"
                    THEN [task EXCEPT !.skipped = Append(@, m),
                                      !.i = task.i + 1,
                                      !.pc = TaskAfter(task)]
                    ELSE IF o = "went"
                    THEN [task EXCEPT
                            !.invoked = IF suspends THEN @ ELSE Append(@, m),
                            !.pc = IF suspends THEN "invoke" ELSE "update"]
                    ELSE [task EXCEPT !.i = task.i + 1, !.pc = "done"]]
        /\ UNCHANGED <<files, exposes, ledger, pc, run, failed, late, shown>>

\* Line 88 in process t: the operation returns.
TaskInvoke(t) ==
    LET task == tasks[t]
    IN  /\ task.pc = "invoke"
        /\ tasks' = [tasks EXCEPT ![t] =
                        [task EXCEPT !.invoked = Append(@, task.window[task.i]),
                                     !.pc = "update"]]
        /\ UNCHANGED <<files, exposes, ledger, pc, run, failed, late, shown>>

\* Line 89 in process t: the INSERT is done, and on to the next unit.
TaskUpdate(t) ==
    LET task == tasks[t]
        m    == task.window[task.i]
    IN  /\ task.pc = "update"
        /\ ledger' = UpdateMigrationTable(ledger, "up", m)
        /\ tasks' = [tasks EXCEPT ![t] =
                        [task EXCEPT !.changed = Append(@, m),
                                     !.i = task.i + 1,
                                     !.pc = TaskAfter(task)]]
        /\ UNCHANGED <<files, exposes, pc, run, failed, late, shown>>

\* The processes start on what _retreive_filenames returns.
TaskPerform ==
    \E t \in Tasks :
        /\ tasks[t].pc = "none"
        /\ \E count \in Counts, sorted \in Catalogs(files) :
              TaskStart(t, count, sorted)

NextConcurrent ==
    \/ \E name \in Names, ops \in SUBSET {"up", "down"} : AddUnit(name, ops)
    \/ TaskPerform
    \/ \E t \in Tasks : TaskLocate(t)
    \/ \E t \in Tasks : TaskCheck(t)
    \/ \E t \in Tasks : TaskInvoke(t)
    \/ \E t \in Tasks : TaskUpdate(t)

SpecConcurrent == Init /\ [][NextConcurrent]_vars

\* C17: with two up runs side by side nothing keeps the rows of a name to
\* one: every process that found no row for a unit and invoked its up
\* operation inserts a row once the operation is over, so the rows of a name
\* are as many as the processes that inserted it, and a name with two rows
\* was invoked by both processes.
C17_ConcurrentUps ==
    /\ \A t \in Tasks :
          /\ Range(tasks[t].changed) \subseteq Range(tasks[t].invoked)
          /\ Len(tasks[t].invoked) - Len(tasks[t].changed)
                = IF tasks[t].pc = "update" THEN 1 ELSE 0
    /\ \A m \in Names :
          /\ Rows(ledger, m)
                = Cardinality({t \in Tasks : m \in Range(tasks[t].changed)})
          /\ Rows(ledger, m) = 2
                => \A t \in Tasks : /\ m \in Range(tasks[t].invoked)
                                    /\ m \notin Range(tasks[t].skipped)

\* C17's case: both processes are over, both have invoked the up operation
\* of one unit and the table holds two rows for it.
C17_Witness ==
    /\ \A t \in Tasks : tasks[t].pc = "done"
    /\ \E m \in Names :
          /\ \A t \in Tasks : m \in Range(tasks[t].invoked)
          /\ Rows(ledger, m) = 2

\* ------------------------------------------- a module written out of order

\* The author writes a module defining up and down, at any time; it is late
\* when its ordinal is below that of the latest record.
AddLate(name) ==
    LET latest == LatestMigration(ledger)
    IN  /\ FileOf(name) \notin files
        /\ files' = files \cup {FileOf(name)}
        /\ exposes' = [exposes EXCEPT ![name] = {"up", "down"}]
        /\ late' = IF latest # NoRow /\ Ordinal(name) < Ordinal(latest)
                   THEN late \cup {name}
                   ELSE late
        /\ UNCHANGED <<ledger, pc, run, failed, tasks, shown>>

NextLate ==
    \/ \E name \in Names : AddLate(name)
    \/ Perform
    \/ Locate
    \/ Check
    \/ Invoke
    \/ Update

SpecLate == Init /\ [][NextLate]_vars

\* C18 (as claimed): a module written with an ordinal below that of the
\* latest record of the time is never applied by a later up run.
C18_NeverAppliedLater ==
    \A m \in late : ~ (run.direction = "up" /\ m \in Range(run.changed))

\* C18: an up run whose latest record is a unit of the catalog visits no
\* unit at or before that unit, so the rows of those units are as the run
\* found them, and when that unit is the last one the run is Blocked
\* ("Nothing to go up", False) with the table unchanged, whatever units
\* before it have no row; a late module that an up run applies was above the
\* latest record, or there was none, as that run started.
C18_UpAfterLatest ==
    /\ ( /\ run.direction = "up"
         /\ run.latest # NoRow
         /\ run.latest \in Range(run.filenames) )
       => LET at == IndexOf(run.filenames, run.latest)
          IN  /\ \A a \in 1..at :
                    /\ run.filenames[a] \notin Visited \cup Touched
                    /\ run.filenames[a] \notin Range(run.window)
                    /\ Rows(ledger, run.filenames[a])
                          = Rows(run.ledger0, run.filenames[a])
              /\ at = Len(run.filenames)
                    => /\ run.result = "False"
                       /\ "nothing" \in run.notices
                       /\ ledger = run.ledger0
    /\ \A m \in late :
          ( run.direction = "up" /\ m \in Range(run.changed) )
          => ( run.latest = NoRow \/ Ordinal(run.latest) < Ordinal(m) )

\* C18's case: a late module has no row, the latest record is the last unit
\* of the catalog, and the up run is Blocked.
C18_Witness ==
    /\ run.direction = "up"
    /\ run.result = "False"
    /\ run.latest # NoRow
    /\ \E m \in late :
          /\ m \in Range(run.filenames)
          /\ m \notin Range(ledger)
          /\ Ordinal(m) < Ordinal(run.latest)

\* -------------------------------------------------------------- round trip

\* The table rows holds exactly the first n units of the run's catalog, one
\* row each.
HoldsFirst(rows, n) ==
    /\ Len(rows) = n
    /\ Range(rows) = Range(SubSeq(Ascending, 1, n))

\* C19: on a catalog on which string order and ordinal order agree and all
\* of whose units define up and down, (1) a real up run of count k over,
\* which started on a table holding exactly the first m units with
\* 1 <= k <= the number of units after them, has inserted units m+1..m+k in
\* that order and leaves exactly the first m+k units; (2) a down run of
\* count k over, which started on a table holding exactly the first n = m+k
\* units, has deleted units n, n-1, .., m+1 in that order, the reverse of
\* (1), and leaves exactly the first m units, the set (1) started from.
\* Neither run is faked.
C19_RoundTrip ==
    ( /\ Over
      /\ OrdersAgree
      /\ AllExpose({"up", "down"})
      /\ ~ run.fake
      /\ run.count >= 1 )
    => /\ \A m \in 0..Len(Ascending) :
             ( /\ run.direction = "up"
               /\ HoldsFirst(run.ledger0, m)
               /\ run.count <= Len(Ascending) - m )
             => /\ run.result = "True"
                /\ run.invoked = SubSeq(Ascending, m + 1, m + run.count)
                /\ run.changed = run.invoked
                /\ HoldsFirst(ledger, m + run.count)
       /\ \A n \in 1..Len(Ascending) :
             ( /\ run.direction = "down"
               /\ HoldsFirst(run.ledger0, n)
               /\ run.count <= n )
             => /\ run.result = "True"
                /\ run.invoked
                      = Reverse(SubSeq(Ascending, n - run.count + 1, n))
                /\ run.changed = run.invoked
                /\ HoldsFirst(ledger, n - run.count)

\* C19's case: the down run of count 2 of a round trip from an empty table
\* on two units is over: it has reverted the second and then the first of
\* the rows the up run of count 2 had inserted, and the table is empty again.
C19_Witness ==
    /\ Over
    /\ OrdersAgree
    /\ AllExpose({"up", "down"})
    /\ run.direction = "down" /\ run.count = 2 /\ ~ run.fake
    /\ run.ledger0 = Ascending
    /\ Len(run.invoked) = 2
    /\ run.invoked = Reverse(run.ledger0)
    /\ ledger = <<>>

\* --------------------------------------------------------- a module removed

\* The author deletes (or renames away) the file of a migration module, at
\* any time.
RemoveUnit(name) ==
    /\ FileOf(name) \in files
    /\ files' = files \ {FileOf(name)}
    /\ exposes' = [exposes EXCEPT ![name] = {}]
    /\ UNCHANGED <<ledger, pc, run, failed, tasks, late, shown>>

NextRemove ==
    \/ \E name \in Names : AddBoth(name)
    \/ \E name \in Names : RemoveUnit(name)
    \/ Perform
    \/ Locate
    \/ Check
    \/ Invoke
    \/ Update

SpecRemove == Init /\ [][NextRemove]_vars

\* C20: an up or down run, of any count, fake or real, on a catalog that is
\* not empty while the latest record names no unit of it, is over with the
\* ValueError of filenames.index: no notice, no window, no unit skipped, no
\* module imported, no operation invoked, no row inserted or deleted.
C20_MissingLatest ==
    ( /\ run.direction \in {"up", "down"}
      /\ Len(run.filenames) > 0
      /\ run.latest # NoRow
      /\ run.latest \notin Range(run.filenames) )
    => /\ pc = "idle"
       /\ run.result = "ValueError"
       /\ run.notices = {}
       /\ run.window = <<>>
       /\ run.skipped = <<>> /\ run.loaded = <<>>
       /\ run.invoked = <<>> /\ run.changed = <<>>
       /\ ledger = run.ledger0

\* C20's case: a down run on two units, neither of them the one the latest
\* record names, has raised.
C20_Witness ==
    /\ run.direction = "down"
    /\ Len(run.filenames) = 2
    /\ run.latest # NoRow
    /\ run.latest \notin Range(run.filenames)
    /\ run.result = "ValueError"
    /\ ledger # <<>>
====
